---- MODULE Spec2Model ----
(***************************************************************************)
(* Phrase Filter content script (extension/content.js, current revision,   *)
(* lines 262-656) together with the parts of its environment it talks to:  *)
(* the page's DOM, chrome.storage.sync and the MutationObserver queue.     *)
(*                                                                         *)
(* Strings are sequences of one-character strings, so that trim(),         *)
(* toLowerCase(), includes() and endsWith() are computed, not assumed.     *)
(***************************************************************************)
EXTENDS Naturals, Integers, Sequences, FiniteSets, TLC

VARIABLES
    location,       \* window.location.host of the page ("" when unavailable)
    pc,             \* position of init(): start, fetching, fetched, ready, aborted, failed
    fetched,        \* result of chrome.storage.sync.get, held until init() resumes
    currentHost,    \* module variable currentHost
    currentRules,   \* module variable currentRules
    observerHandle, \* module variable observerHandle: 0 = null, else index in observers
    observers,      \* connected MutationObservers: captured rules + queued records
    store,          \* chrome.storage.sync value under STORAGE_KEY
    notifQ,         \* onChanged notifications dispatched to the listener, not yet run
    cards,          \* the page's listing-card elements
    buttons,        \* the page's button[data-bid] elements
    styleCount,     \* number of <style id="phrasefilter-style"> elements in the page
    unscanned,      \* the cards inserted that no scan has visited yet
    popup,          \* the open popup instances: [pc, host, name, kind, phrase, all]
                    \*   pc "idle", or "loaded" between the operation's
                    \*   loadAllRules() and its saveAllRules(); all: what it loaded
    edits,          \* number of editor operations begun
    heard,          \* the onChanged notification the step just taken handed to the
                    \*   listener: [areaName, changes], areaName "" when it was none
    last            \* the step just taken: [records, adding, scans, inserted]
                    \*   records:  number of records handed to the observer callback
                    \*   adding:   how many of them have a non-empty addedNodes
                    \*   scans:    the rules of each applyRulesToPage call, in order
                    \*   inserted: number of nodes the step's own DOM writes inserted
                    \*             (the style element, the rewritten button texts)

vars == <<location, pc, fetched, currentHost, currentRules, observerHandle,
          observers, store, notifQ, cards, buttons, styleCount, unscanned,
          popup, edits, heard, last>>

(***************************************************************************)
(* Bounds of the model.                                                    *)
(***************************************************************************)
MaxCards == 1
MaxButtons == 1
MaxPending == 2
MaxNotif == 1
MaxBurst == 2
MaxPopups == 2
MaxEdits == 3

Cards == 1..MaxCards
Buttons == 1..MaxButtons
Popups == 1..MaxPopups

(***************************************************************************)
(* Strings.                                                                *)
(***************************************************************************)
Empty == <<>>

IsSpace(ch) == ch = " "

\* String.prototype.toLowerCase on the characters the model uses.
LowerChar(ch) ==
    CASE ch = "A" -> "a"
      [] ch = "B" -> "b"
      [] ch = "C" -> "c"
      [] OTHER -> ch

toLowerCase(s) == [i \in 1..Len(s) |-> LowerChar(s[i])]

RECURSIVE trimStart(_)
trimStart(s) ==
    IF s # Empty /\ IsSpace(Head(s)) THEN trimStart(Tail(s)) ELSE s

RECURSIVE trimEnd(_)
trimEnd(s) ==
    IF s # Empty /\ IsSpace(s[Len(s)]) THEN trimEnd(SubSeq(s, 1, Len(s) - 1)) ELSE s

\* String.prototype.trim
trim(s) == trimEnd(trimStart(s))

\* String.prototype.includes
includes(h, p) ==
    \E i \in 0..(Len(h) - Len(p)) : SubSeq(h, i + 1, i + Len(p)) = p

\* String.prototype.endsWith
endsWith(h, p) ==
    /\ Len(p) <= Len(h)
    /\ SubSeq(h, Len(h) - Len(p) + 1, Len(h)) = p

(***************************************************************************)
(* Static configuration.                                                   *)
(***************************************************************************)
BIDFTA == <<"b", "i", "d", "f", "t", "a", ".", "c", "o", "m">>
GOVDEALS == <<"g", "o", "v", "d", "e", "a", "l", "s", ".", "c", "o", "m">>

BidftaItemSelector == "div[role=\"button\"][aria-label=\"Click to navigate to item details\"]"
GovdealsItemSelector == "div.card.card-search"

\* Object.entries order is insertion order: bidfta.com, then govdeals.com.
ITEM_SELECTOR_BY_DOMAIN ==
    << <<BIDFTA, BidftaItemSelector>>, <<GOVDEALS, GovdealsItemSelector>> >>

TITLE_SELECTOR_BY_DOMAIN ==
    << <<BIDFTA, "h4">>, <<GOVDEALS, ".card-title a">> >>

\* What a function that falls off its end returns; document.querySelectorAll
\* turns it into the selector text "undefined".
Undefined == "undefined"

defaultSiteRules ==
    [includePhrases |-> [kind |-> "array", items |-> <<>>],
     excludePhrases |-> [kind |-> "array", items |-> <<>>]]

\* Variant: the suffix test without the dot
hostMatchesDomain_NoDot(host, domain) ==
    IF host = Empty \/ domain = Empty THEN FALSE
    ELSE host = domain \/ endsWith(host, domain)

hostMatchesDomain(host, domain) ==
    IF host = Empty \/ domain = Empty THEN FALSE
    ELSE host = domain \/ endsWith(host, <<".">> \o domain)

\* The table values carry no surrounding whitespace, so (selector || "").trim()
\* is the selector itself; a blank value is the empty text.
RECURSIVE ItemSelectorFrom(_, _)
ItemSelectorFrom(host, i) ==
    IF i > Len(ITEM_SELECTOR_BY_DOMAIN) THEN Undefined
    ELSE IF ~hostMatchesDomain(host, ITEM_SELECTOR_BY_DOMAIN[i][1])
         THEN ItemSelectorFrom(host, i + 1)
         ELSE IF ITEM_SELECTOR_BY_DOMAIN[i][2] # ""
              THEN ITEM_SELECTOR_BY_DOMAIN[i][2]
              ELSE Undefined

getItemSelectorForHost(host) == ItemSelectorFrom(host, 1)

RECURSIVE TitleSelectorFrom(_, _)
TitleSelectorFrom(host, i) ==
    IF i > Len(TITLE_SELECTOR_BY_DOMAIN) THEN ""
    ELSE IF ~hostMatchesDomain(host, TITLE_SELECTOR_BY_DOMAIN[i][1])
         THEN TitleSelectorFrom(host, i + 1)
         ELSE TITLE_SELECTOR_BY_DOMAIN[i][2]

getTitleSelectorForHost(host) == TitleSelectorFrom(host, 1)

(***************************************************************************)
(* Text normalizer and phrase matcher.                                     *)
(***************************************************************************)
\* (s || "").toString().trim().toLowerCase(), s a string. Here and below a
\* value the code computes once and reads several times (a const, a parameter)
\* is bound once, as the element of a one-element set.
normalizeText(s) ==
    CHOOSE result \in { toLowerCase(trimmed) : trimmed \in { trim(v) : v \in {s} } } : TRUE

\* Array.prototype.filter(Boolean) over strings: drops the empty ones
RECURSIVE filterNonEmpty(_)
filterNonEmpty(list) ==
    IF list = <<>> THEN <<>>
    ELSE IF Head(list) = Empty THEN filterNonEmpty(Tail(list))
         ELSE <<Head(list)>> \o filterNonEmpty(Tail(list))

\* Variant: the empty results are not dropped
normalizePhrases_KeepsEmpty(arr) ==
    CHOOSE result \in
        { [i \in 1..Len(list) |-> normalizeText(list[i])] :
            list \in { IF arr.kind = "array" THEN arr.items ELSE <<>> } } : TRUE

\* arr is a stored field: [kind |-> "array", items |-> ...] or a non-array value
normalizePhrases(arr) ==
    CHOOSE result \in
        { filterNonEmpty([i \in 1..Len(list) |-> normalizeText(list[i])]) :
            list \in { IF arr.kind = "array" THEN arr.items ELSE <<>> } } : TRUE

\* Variant: some((p) => haystackLower.includes(p)), without the p && guard
hasAnyPhrase_NoEmptyGuard(haystackLower, phrasesLower) ==
    IF haystackLower = Empty THEN FALSE
    ELSE IF Len(phrasesLower) = 0 THEN FALSE
    ELSE \E i \in 1..Len(phrasesLower) : includes(haystackLower, phrasesLower[i])

hasAnyPhrase(haystackLower, phrasesLower) ==
    IF haystackLower = Empty THEN FALSE
    ELSE IF Len(phrasesLower) = 0 THEN FALSE
    ELSE \E i \in 1..Len(phrasesLower) :
            /\ phrasesLower[i] # Empty
            /\ includes(haystackLower, phrasesLower[i])

(***************************************************************************)
(* DOM values.                                                             *)
(*   card:   [present, tag, titleEl, highlight, hidden]                    *)
(*           highlight/hidden: data-phrasefilter-highlight/-hidden = "1"   *)
(*   titleEl:[present, hasAttr, attr, text]   the card's <h4>              *)
(*   button: [present, dataBid, enhanced, suffixes]                        *)
(*   mutation record: [added]   length of addedNodes, the one field of a   *)
(*                    childList record the callback reads                  *)
(***************************************************************************)
NoElement == [present |-> FALSE, hasAttr |-> FALSE, attr |-> Empty, text |-> Empty]

\* display is the element's inline style.display ("" when the page sets none)
NoCard ==
    [present |-> FALSE, tag |-> "", titleEl |-> NoElement, highlight |-> FALSE,
     hidden |-> FALSE, display |-> ""]

\* An element as the page inserts it. The page gives its card roots an inline
\* display: flex; other elements carry no inline style.
NewCard(tag, titleEl) ==
    [present |-> TRUE, tag |-> tag, titleEl |-> titleEl, highlight |-> FALSE,
     hidden |-> FALSE, display |-> IF tag = "div" THEN "flex" ELSE ""]

NoButton == [present |-> FALSE, dataBid |-> Empty, enhanced |-> FALSE, suffixes |-> 0]

TitleEl(hasAttr, attr, text) ==
    [present |-> TRUE, hasAttr |-> hasAttr, attr |-> attr, text |-> text]

\* document.querySelectorAll(selector) over the modelled elements. An element
\* with tag "div" is a BidFTA card root (role="button", the aria-label); one
\* with tag "undefined" is an <undefined> element, which the type selector
\* "undefined" matches. The title element of either is an <h4> child.
MatchesItemSelector(card, selector) ==
    /\ card.present
    /\ \/ selector = BidftaItemSelector /\ card.tag = "div"
       \/ selector = Undefined /\ card.tag = "undefined"

\* card.querySelector(titleSelector)
querySelector(card, titleSelector) ==
    IF titleSelector = "h4" THEN card.titleEl ELSE NoElement

\* Variant: an empty title selector falls back to the <h4>
findTitleElementForHost_FallsBackToH4(host, card) ==
    LET titleSelector == getTitleSelectorForHost(host)
    IN  querySelector(card, IF titleSelector = "" THEN "h4" ELSE titleSelector)

findTitleElementForHost(host, card) ==
    LET titleSelector == getTitleSelectorForHost(host)
    IN  IF titleSelector = "" THEN NoElement
        ELSE querySelector(card, titleSelector)

\* Variant: (textContent || getAttribute("title") || "").trim()
getTitleTextFromCard_TextFirst(host, card) ==
    CHOOSE result \in
        { IF ~titleEl.present THEN Empty
          ELSE IF titleEl.text # Empty THEN trim(titleEl.text)
          ELSE IF titleEl.hasAttr THEN trim(titleEl.attr)
          ELSE Empty :
            titleEl \in { findTitleElementForHost(host, card) } } : TRUE

\* (titleEl.getAttribute("title") || titleEl.textContent || "").trim()
getTitleTextFromCard(host, card) ==
    CHOOSE result \in
        { IF ~titleEl.present THEN Empty
          ELSE IF titleEl.hasAttr /\ titleEl.attr # Empty THEN trim(titleEl.attr)
          ELSE trim(titleEl.text) :
            titleEl \in { findTitleElementForHost(host, card) } } : TRUE

\* Variant: the card is hidden, its inline display restored on clearing
setHidden_HidesCard(card, shouldHide) ==
    IF shouldHide
    THEN [card EXCEPT !.display = "none", !.hidden = TRUE]
    ELSE IF card.hidden
         THEN [card EXCEPT !.display = "", !.hidden = FALSE]
         ELSE card

\* Variant: the exclusion marker is set and never removed
setHidden_OnlySets(card, shouldHide) ==
    [card EXCEPT !.hidden = card.hidden \/ shouldHide]

\* Variant: toggleAttribute in place of setAttribute
setHidden_Toggles(card, shouldHide) ==
    [card EXCEPT !.hidden = IF shouldHide THEN ~card.hidden ELSE FALSE]

setHidden(card, shouldHide) == [card EXCEPT !.hidden = shouldHide]

\* Variant: the else branch (removeAttribute) is missing
setHighlighted_NeverClears(card, shouldHighlight) ==
    IF shouldHighlight THEN [card EXCEPT !.highlight = TRUE] ELSE card

setHighlighted(card, shouldHighlight) == [card EXCEPT !.highlight = shouldHighlight]

\* Variant: the include test comes first
applyRulesToCard_IncludeFirst(host, card, rules) ==
    CHOOSE result \in
        { LET isExcluded == hasAnyPhrase(titleLower, excludePhrasesLower)
              isIncluded == hasAnyPhrase(titleLower, includePhrasesLower)
          IN  IF titleLower = Empty
              THEN setHighlighted(setHidden(card, FALSE), FALSE)
              ELSE IF isIncluded
              THEN setHighlighted(setHidden(card, FALSE), TRUE)
              ELSE setHidden(setHighlighted(card, FALSE), isExcluded) :
            titleLower \in { normalizeText(getTitleTextFromCard(host, card)) },
            includePhrasesLower \in { normalizePhrases(rules.includePhrases) },
            excludePhrasesLower \in { normalizePhrases(rules.excludePhrases) } } : TRUE

applyRulesToCard(host, card, rules) ==
    CHOOSE result \in
        { LET isExcluded == hasAnyPhrase(titleLower, excludePhrasesLower)
              isIncluded == hasAnyPhrase(titleLower, includePhrasesLower)
          IN  IF titleLower = Empty
              THEN setHighlighted(setHidden(card, FALSE), FALSE)
              ELSE IF isExcluded
              THEN setHidden(setHighlighted(card, FALSE), TRUE)
              ELSE setHighlighted(setHidden(card, FALSE), isIncluded) :
            titleLower \in { normalizeText(getTitleTextFromCard(host, card)) },
            includePhrasesLower \in { normalizePhrases(rules.includePhrases) },
            excludePhrasesLower \in { normalizePhrases(rules.excludePhrases) } } : TRUE

\* parseFloat(s) is a number iff, after leading whitespace, s starts with a digit
\* (the model's data-bid values carry no sign and no leading dot).
Digits == {"0", "1", "2", "3", "4", "5", "6", "7", "8", "9"}

parseFloatIsNaN(s) ==
    LET t == trimStart(s) IN t = Empty \/ Head(t) \notin Digits

\* Variant: no look at the enhanced attribute before rewriting the text
enhanceBidButton_NoSkip(button) ==
    IF parseFloatIsNaN(button.dataBid) THEN button
    ELSE [button EXCEPT !.suffixes = @ + 1, !.enhanced = TRUE]

\* Variant: the enhanced attribute is not set
enhanceBidButton_NoMark(button) ==
    IF button.enhanced THEN button
    ELSE IF parseFloatIsNaN(button.dataBid) THEN button
    ELSE [button EXCEPT !.suffixes = @ + 1]

enhanceBidButton(button) ==
    IF button.enhanced THEN button
    ELSE IF parseFloatIsNaN(button.dataBid) THEN button
    ELSE [button EXCEPT !.suffixes = @ + 1, !.enhanced = TRUE]

\* button.textContent = ... replaces the button's text node: one childList record
enhanceBidButtonRecords(button) ==
    IF button.enhanced \/ parseFloatIsNaN(button.dataBid) THEN <<>>
    ELSE << [added |-> 1] >>

\* Variant: the buttons are enhanced on every host
enhanceBidButtons_AnyHost(host, bs) ==
    [b \in DOMAIN bs |-> IF bs[b].present THEN enhanceBidButton(bs[b]) ELSE bs[b]]

enhanceBidButtons(host, bs) ==
    IF ~hostMatchesDomain(host, BIDFTA) THEN bs
    ELSE [b \in DOMAIN bs |-> IF bs[b].present THEN enhanceBidButton(bs[b]) ELSE bs[b]]

RECURSIVE enhanceBidButtonsRecordsFrom(_, _)
enhanceBidButtonsRecordsFrom(bs, b) ==
    IF b > Len(bs) THEN <<>>
    ELSE (IF bs[b].present THEN enhanceBidButtonRecords(bs[b]) ELSE <<>>)
         \o enhanceBidButtonsRecordsFrom(bs, b + 1)

enhanceBidButtonsRecords(host, bs) ==
    IF ~hostMatchesDomain(host, BIDFTA) THEN <<>>
    ELSE enhanceBidButtonsRecordsFrom(bs, 1)

\* The declarations of the injected style sheet for [HIDDEN_ATTR="1"] and for
\* its ::after overlay
HiddenCss == [position |-> "relative"]

HiddenOverlayCss ==
    [content |-> "", position |-> "absolute", inset |-> "0", pointerEvents |-> "none"]

\* Variant: no look for the sentinel element
injectHighlightCssOnce_Always(n) == n + 1

\* document.head.appendChild(style) unless the sentinel element exists
injectHighlightCssOnce(n) == IF n > 0 THEN n ELSE n + 1

injectHighlightCssOnceRecords(n) ==
    IF n > 0 THEN <<>> ELSE << [added |-> 1] >>

\* setAttribute/removeAttribute of the marker attributes are attribute
\* mutations: a childList observer gets no record for them
applyRulesToCardRecords(before, after) == <<>>

\* The cards part of applyRulesToPage
applyRulesToCards(host, cs, rules) ==
    LET effectiveSelector == getItemSelectorForHost(host)
    IN  [c \in DOMAIN cs |->
            IF MatchesItemSelector(cs[c], effectiveSelector)
            THEN applyRulesToCard(host, cs[c], rules)
            ELSE cs[c]]

RECURSIVE applyRulesToCardsRecordsFrom(_, _, _, _)
applyRulesToCardsRecordsFrom(host, cs, rules, c) ==
    IF c > Len(cs) THEN <<>>
    ELSE (IF MatchesItemSelector(cs[c], getItemSelectorForHost(host))
          THEN applyRulesToCardRecords(cs[c], applyRulesToCard(host, cs[c], rules))
          ELSE <<>>)
         \o applyRulesToCardsRecordsFrom(host, cs, rules, c + 1)

\* The childList records one applyRulesToPage call produces, in order
applyRulesToPageRecords(host, n, cs, bs, rules) ==
    injectHighlightCssOnceRecords(n)
    \o applyRulesToCardsRecordsFrom(host, cs, rules, 1)
    \o enhanceBidButtonsRecords(host, bs)

(***************************************************************************)
(* Values the environment draws from.                                      *)
(***************************************************************************)
WWW_BIDFTA == <<"w", "w", "w", ".">> \o BIDFTA
NOT_BIDFTA == <<"n", "o", "t">> \o BIDFTA

\* window.location: a BidFTA page, a page of an unlisted site, an empty host,
\* and a location whose access throws
Location(throws, host) == [throws |-> throws, host |-> host]

Locations ==
    { Location(FALSE, WWW_BIDFTA), Location(FALSE, NOT_BIDFTA),
      Location(FALSE, Empty), Location(TRUE, Empty) }

StoredHosts == {WWW_BIDFTA, NOT_BIDFTA}

Missing == [kind |-> "missing", items |-> <<>>]
Null == [kind |-> "null", items |-> <<>>]
Array(items) == [kind |-> "array", items |-> items]

NoEntry == [present |-> FALSE, includePhrases |-> Missing, excludePhrases |-> Missing]

Entry(inc, exc) == [present |-> TRUE, includePhrases |-> inc, excludePhrases |-> exc]

\* include "a" only; the excludePhrases field is absent
EntryInc == Entry(Array(<< <<"a">> >>), Missing)
\* include "a", exclude "B " (normalizes to "b")
EntryBoth == Entry(Array(<< <<"a">> >>), Array(<< <<"B", " ">> >>))
\* a null include list; exclude "" and "b"
EntryExc == Entry(Null, Array(<< Empty, <<"b">> >>))

NoMapping == [present |-> FALSE, byHost |-> [h \in StoredHosts |-> NoEntry]]

Mapping(www, other) ==
    [present |-> TRUE,
     byHost |-> [h \in StoredHosts |-> IF h = WWW_BIDFTA THEN www ELSE other]]

\* Values of the STORAGE_KEY item: absent, or a mapping host -> entry
StoreValues ==
    { NoMapping,
      Mapping(EntryInc, NoEntry),
      Mapping(EntryBoth, NoEntry),
      Mapping(EntryBoth, EntryExc),
      Mapping(EntryExc, NoEntry) }

\* Title elements the page uses: text "Ab"; title="a" over text "Ab"; blank text
PageTitleEls ==
    { TitleEl(FALSE, Empty, <<"A", "b">>),
      TitleEl(TRUE, <<"a">>, <<"A", "b">>),
      TitleEl(FALSE, Empty, <<" ">>) }

\* Elements the page inserts: BidFTA cards with or without a title element,
\* and <undefined> elements with or without an <h4>
PageCards ==
    { NewCard("div", t) : t \in PageTitleEls \cup {NoElement} }
    \cup { NewCard("undefined", t) : t \in {TitleEl(FALSE, Empty, <<"A", "b">>), NoElement} }

\* data-bid values the page uses
PageBids == { <<"5">>, <<"x">> }

(***************************************************************************)
(* Rule Store Bridge helpers.                                              *)
(***************************************************************************)
\* rulesByHost[host], undefined when there is no such key
EntryOf(rulesByHost, host) ==
    IF rulesByHost.present /\ host \in DOMAIN rulesByHost.byHost
    THEN rulesByHost.byHost[host]
    ELSE NoEntry

\* { ...defaultSiteRules(), ...(siteRules || {}) }
spreadOverDefault(siteRules) ==
    [f \in {"includePhrases", "excludePhrases"} |->
        IF siteRules.present /\ siteRules[f].kind # "missing"
        THEN siteRules[f]
        ELSE defaultSiteRules[f]]

loadSiteRules(rulesByHost, host) == spreadOverDefault(EntryOf(rulesByHost, host))

\* try { return window.location.host || "" } catch { return "" }
safeHostFromLocation(loc) == IF loc.throws THEN Empty ELSE loc.host

(***************************************************************************)
(* Page Scanner and Mutation Watcher.                                      *)
(***************************************************************************)
\* The changes argument of an onChanged listener, reduced to STORAGE_KEY
Changes(hasKey, oldValue, newValue) ==
    [hasKey |-> hasKey, oldValue |-> oldValue, newValue |-> newValue]

\* No notification
NoNotification == [areaName |-> "", changes |-> Changes(FALSE, NoMapping, NoMapping)]

RECURSIVE Adding(_)
Adding(batch) ==
    IF batch = <<>> THEN 0
    ELSE (IF Head(batch).added > 0 THEN 1 ELSE 0) + Adding(Tail(batch))

Step(batch, scans, inserted) ==
    [records |-> Len(batch), adding |-> Adding(batch), scans |-> scans,
     inserted |-> inserted]

\* A step that hands no records to a callback and scans nothing
NoScan == Step(<<>>, <<>>, 0)

\* Every connected observer queues the childList records of a DOM change.
Enqueue(obs, records) ==
    [i \in 1..Len(obs) |-> [obs[i] EXCEPT !.records = @ \o records]]

RemoveAt(seq, i) == SubSeq(seq, 1, i - 1) \o SubSeq(seq, i + 1, Len(seq))

\* A scan visits every element the item selector matches.
Visited(host, cs) ==
    { c \in DOMAIN cs : MatchesItemSelector(cs[c], getItemSelectorForHost(host)) }

\* Variant: the records of the scan's own insertions are delivered inside the
\* scan, which scans again
applyRulesToPage_Reenters(rules, obs, batch) ==
    LET records == applyRulesToPageRecords(currentHost, styleCount, cards, buttons, rules)
    IN  /\ styleCount' = injectHighlightCssOnce(styleCount)
        /\ cards' = applyRulesToCards(currentHost, cards, rules)
        /\ buttons' = enhanceBidButtons(currentHost, buttons)
        /\ observers' = obs
        /\ unscanned' = unscanned \ Visited(currentHost, cards)
        /\ last' = Step(batch, IF records = <<>> THEN <<rules>> ELSE <<rules, rules>>, 0)

\* applyRulesToPage(rules), run while obs are the connected observers; batch
\* is what the observer callback running it was handed, if one runs it
applyRulesToPage(rules, obs, batch) ==
    LET records == applyRulesToPageRecords(currentHost, styleCount, cards, buttons, rules)
    IN  /\ styleCount' = injectHighlightCssOnce(styleCount)
        /\ cards' = applyRulesToCards(currentHost, cards, rules)
        /\ buttons' = enhanceBidButtons(currentHost, buttons)
        /\ observers' = Enqueue(obs, records)
        /\ unscanned' = unscanned \ Visited(currentHost, cards)
        /\ last' = Step(batch, <<rules>>,
                     Len(injectHighlightCssOnceRecords(styleCount))
                     + Len(enhanceBidButtonsRecords(currentHost, buttons)))

\* new MutationObserver(...) capturing rules; observe(documentElement, childList)
startObserver(rules, obs) == Append(obs, [rules |-> rules, records |-> <<>>])

\* onRulesReady(), run after currentRules became rules
\* Variant: the previous observer is not disconnected
onRulesReady_NoDisconnect(rules) ==
    LET started == startObserver(rules, observers)
    IN  /\ observerHandle' = Len(started)
        /\ applyRulesToPage(rules, started, <<>>)

\* Variant: the observer is reinstalled but the page is not scanned
onRulesReady_NoScan(rules) ==
    LET disconnected == IF observerHandle # 0
                        THEN RemoveAt(observers, observerHandle)
                        ELSE observers
        started == startObserver(rules, disconnected)
    IN  /\ observerHandle' = Len(started)
        /\ observers' = started
        /\ last' = NoScan
        /\ UNCHANGED <<cards, buttons, styleCount, unscanned>>

onRulesReady(rules) ==
    LET disconnected == IF observerHandle # 0
                        THEN RemoveAt(observers, observerHandle)
                        ELSE observers
        started == startObserver(rules, disconnected)
    IN  /\ observerHandle' = Len(started)
        /\ applyRulesToPage(rules, started, <<>>)

\* Variants of the callback: it scans on every batch; it looks at the last
\* record only
ObserverCallback_EveryBatch(i) ==
    /\ i \in 1..Len(observers)
    /\ observers[i].records # <<>>
    /\ applyRulesToPage(observers[i].rules,
                        [observers EXCEPT ![i].records = <<>>], observers[i].records)
    /\ heard' = NoNotification
    /\ UNCHANGED <<popup, edits>>
    /\ UNCHANGED <<location, pc, fetched, currentHost, currentRules, observerHandle,
                   store, notifQ>>

ObserverCallback_LastRecord(i) ==
    /\ i \in 1..Len(observers)
    /\ observers[i].records # <<>>
    /\ LET mutations == observers[i].records
           taken == [observers EXCEPT ![i].records = <<>>]
       IN  IF mutations[Len(mutations)].added = 0
           THEN /\ observers' = taken
                /\ last' = Step(mutations, <<>>, 0)
                /\ UNCHANGED <<cards, buttons, styleCount, unscanned>>
           ELSE applyRulesToPage(observers[i].rules, taken, mutations)
    /\ heard' = NoNotification
    /\ UNCHANGED <<popup, edits>>
    /\ UNCHANGED <<location, pc, fetched, currentHost, currentRules, observerHandle,
                   store, notifQ>>

\* The MutationObserver callback of observer i, given its queued records
ObserverCallback(i) ==
    /\ i \in 1..Len(observers)
    /\ observers[i].records # <<>>
    /\ LET mutations == observers[i].records
           taken == [observers EXCEPT ![i].records = <<>>]
           added == \E k \in 1..Len(mutations) : mutations[k].added > 0
       IN  IF ~added
           THEN /\ observers' = taken
                /\ last' = Step(mutations, <<>>, 0)
                /\ UNCHANGED <<cards, buttons, styleCount, unscanned>>
           ELSE applyRulesToPage(observers[i].rules, taken, mutations)
    /\ heard' = NoNotification
    /\ UNCHANGED <<popup, edits>>
    /\ UNCHANGED <<location, pc, fetched, currentHost, currentRules, observerHandle,
                   store, notifQ>>

(***************************************************************************)
(* Rule Store Bridge: init() and the onChanged listener.                   *)
(***************************************************************************)
\* Variant: init() does not return on an empty host
InitBegin_NoHostGuard ==
    /\ pc = "start"
    /\ currentHost' = safeHostFromLocation(location)
    /\ pc' = "fetching"
    /\ last' = NoScan
    /\ heard' = NoNotification
    /\ UNCHANGED <<popup, edits>>
    /\ UNCHANGED <<location, fetched, currentRules, observerHandle, observers,
                   store, notifQ, cards, buttons, styleCount, unscanned>>

\* init() up to the await
InitBegin ==
    /\ pc = "start"
    /\ currentHost' = safeHostFromLocation(location)
    /\ pc' = IF currentHost' = Empty THEN "aborted" ELSE "fetching"
    /\ last' = NoScan
    /\ heard' = NoNotification
    /\ UNCHANGED <<popup, edits>>
    /\ UNCHANGED <<location, fetched, currentRules, observerHandle, observers,
                   store, notifQ, cards, buttons, styleCount, unscanned>>

\* chrome.storage.sync.get(STORAGE_KEY) reads the store and resolves
StorageGet ==
    /\ pc = "fetching"
    /\ fetched' = store
    /\ pc' = "fetched"
    /\ last' = NoScan
    /\ heard' = NoNotification
    /\ UNCHANGED <<popup, edits>>
    /\ UNCHANGED <<location, currentHost, currentRules, observerHandle, observers,
                   store, notifQ, cards, buttons, styleCount, unscanned>>

\* chrome.storage.sync.get rejects: the await throws and init() ends there
StorageGetFails ==
    /\ pc = "fetching"
    /\ pc' = "failed"
    /\ last' = NoScan
    /\ heard' = NoNotification
    /\ UNCHANGED <<popup, edits>>
    /\ UNCHANGED <<location, fetched, currentHost, currentRules, observerHandle,
                   observers, store, notifQ, cards, buttons, styleCount, unscanned>>

\* Variant: init() ignores what it fetched
InitResume_IgnoresFetched ==
    /\ pc = "fetched"
    /\ currentRules' = defaultSiteRules
    /\ onRulesReady(currentRules')
    /\ pc' = "ready"
    /\ fetched' = NoMapping
    /\ heard' = NoNotification
    /\ UNCHANGED <<popup, edits>>
    /\ UNCHANGED <<location, currentHost, store, notifQ>>

\* init() after the await: currentRules, onRulesReady(), addListener
InitResume ==
    /\ pc = "fetched"
    /\ currentRules' = loadSiteRules(fetched, currentHost)
    /\ onRulesReady(currentRules')
    /\ pc' = "ready"
    /\ fetched' = NoMapping
    /\ heard' = NoNotification
    /\ UNCHANGED <<popup, edits>>
    /\ UNCHANGED <<location, currentHost, store, notifQ>>

\* Variant: the new entry is spread over the previous snapshot
Listener_MergesPrevious(changes, areaName) ==
    IF areaName # "sync" \/ ~changes.hasKey
    THEN /\ last' = NoScan
         /\ UNCHANGED <<currentRules, observerHandle, observers, cards, buttons,
                        styleCount, unscanned>>
    ELSE /\ currentRules' =
              [f \in {"includePhrases", "excludePhrases"} |->
                  IF EntryOf(changes.newValue, currentHost).present
                     /\ EntryOf(changes.newValue, currentHost)[f].kind # "missing"
                  THEN EntryOf(changes.newValue, currentHost)[f]
                  ELSE currentRules[f]]
         /\ onRulesReady(currentRules')

\* Variant: the listener does not look at the area
Listener_AnyArea(changes, areaName) ==
    IF ~changes.hasKey
    THEN /\ last' = NoScan
         /\ UNCHANGED <<currentRules, observerHandle, observers, cards, buttons,
                        styleCount, unscanned>>
    ELSE /\ currentRules' = loadSiteRules(changes.newValue, currentHost)
         /\ onRulesReady(currentRules')

\* Variant: a newValue without an entry for the host is not applied
Listener_KeepsWhenNoEntry(changes, areaName) ==
    IF areaName # "sync" \/ ~changes.hasKey
       \/ ~EntryOf(changes.newValue, currentHost).present
    THEN /\ last' = NoScan
         /\ UNCHANGED <<currentRules, observerHandle, observers, cards, buttons,
                        styleCount, unscanned>>
    ELSE /\ currentRules' = loadSiteRules(changes.newValue, currentHost)
         /\ onRulesReady(currentRules')

\* The onChanged listener. changes: [hasKey, oldValue, newValue]
Listener(changes, areaName) ==
    IF areaName # "sync" \/ ~changes.hasKey
    THEN /\ last' = NoScan
         /\ UNCHANGED <<currentRules, observerHandle, observers, cards, buttons,
                        styleCount, unscanned>>
    ELSE /\ currentRules' = loadSiteRules(changes.newValue, currentHost)
         /\ onRulesReady(currentRules')

\* The next queued notification of a STORAGE_KEY write reaches the listener
DeliverNotification ==
    /\ pc = "ready"
    /\ notifQ # <<>>
    /\ Listener(Head(notifQ).changes, Head(notifQ).areaName)
    /\ heard' = Head(notifQ)
    /\ UNCHANGED <<popup, edits>>
    /\ notifQ' = Tail(notifQ)
    /\ UNCHANGED <<location, pc, fetched, currentHost, store>>

\* Changes of another storage area or of another key, as the listener gets them
UnrelatedChanges ==
    { [areaName |-> "local", changes |-> Changes(TRUE, NoMapping, Mapping(EntryExc, NoEntry))],
      [areaName |-> "sync", changes |-> Changes(FALSE, NoMapping, NoMapping)] }

\* A notification for another storage area or another key reaches the listener
UnrelatedNotification ==
    /\ pc = "ready"
    /\ \E n \in UnrelatedChanges :
          /\ Listener(n.changes, n.areaName)
          /\ heard' = n
          /\ UNCHANGED <<popup, edits>>
    /\ UNCHANGED <<location, pc, fetched, currentHost, store, notifQ>>

(***************************************************************************)
(* The environment: the page's own DOM changes and writes to the store.    *)
(* A DOM change is possible while every connected observer has room for    *)
(* its record.                                                             *)
(***************************************************************************)
Room == \A i \in 1..Len(observers) : Len(observers[i].records) < MaxPending

\* The page inserts a listing card (a childList record with one added node)
AddCard(c, card) ==
    /\ ~cards[c].present
    /\ Room
    /\ cards' = [cards EXCEPT ![c] = card]
    /\ observers' = Enqueue(observers, << [added |-> 1] >>)
    /\ unscanned' = unscanned \cup {c}
    /\ last' = NoScan
    /\ heard' = NoNotification
    /\ UNCHANGED <<popup, edits>>
    /\ UNCHANGED <<location, pc, fetched, currentHost, currentRules, observerHandle,
                   store, notifQ, buttons, styleCount>>

\* The page removes a listing card (a childList record with no added node)
RemoveCard(c) ==
    /\ cards[c].present
    /\ Room
    /\ cards' = [cards EXCEPT ![c] = NoCard]
    /\ observers' = Enqueue(observers, << [added |-> 0] >>)
    /\ unscanned' = unscanned \ {c}
    /\ last' = NoScan
    /\ heard' = NoNotification
    /\ UNCHANGED <<popup, edits>>
    /\ UNCHANGED <<location, pc, fetched, currentHost, currentRules, observerHandle,
                   store, notifQ, buttons, styleCount>>

\* The page sets or removes the title attribute of a card's title element:
\* an attribute mutation, which a childList observer does not record
SetTitleAttribute(c, t) ==
    /\ cards[c].present /\ cards[c].titleEl.present
    /\ t.text = cards[c].titleEl.text
    /\ t # cards[c].titleEl
    /\ cards' = [cards EXCEPT ![c].titleEl = t]
    /\ last' = NoScan
    /\ heard' = NoNotification
    /\ UNCHANGED <<popup, edits>>
    /\ UNCHANGED <<location, pc, fetched, currentHost, currentRules, observerHandle,
                   observers, store, notifQ, buttons, styleCount, unscanned>>

\* The page changes the text of a card's title element, either by replacing
\* its text node (el.textContent = ..., a childList record) or by editing the
\* text node in place (node.data = ..., a characterData mutation, not recorded)
SetTitleText(c, t, replaceNode) ==
    /\ cards[c].present /\ cards[c].titleEl.present
    /\ t.hasAttr = cards[c].titleEl.hasAttr /\ t.attr = cards[c].titleEl.attr
    /\ t.text # cards[c].titleEl.text
    /\ replaceNode => Room
    /\ cards' = [cards EXCEPT ![c].titleEl = t]
    /\ observers' = IF replaceNode
                    THEN Enqueue(observers, << [added |-> 1] >>)
                    ELSE observers
    /\ last' = NoScan
    /\ heard' = NoNotification
    /\ UNCHANGED <<popup, edits>>
    /\ UNCHANGED <<location, pc, fetched, currentHost, currentRules, observerHandle,
                   store, notifQ, buttons, styleCount, unscanned>>

\* The page removes a card's title element (a record with no added node)
RemoveTitleElement(c) ==
    /\ cards[c].present /\ cards[c].titleEl.present
    /\ Room
    /\ cards' = [cards EXCEPT ![c].titleEl = NoElement]
    /\ observers' = Enqueue(observers, << [added |-> 0] >>)
    /\ last' = NoScan
    /\ heard' = NoNotification
    /\ UNCHANGED <<popup, edits>>
    /\ UNCHANGED <<location, pc, fetched, currentHost, currentRules, observerHandle,
                   store, notifQ, buttons, styleCount, unscanned>>

\* The page inserts a bid button
AddButton(b, bid) ==
    /\ ~buttons[b].present
    /\ Room
    /\ buttons' = [buttons EXCEPT ![b] =
                    [present |-> TRUE, dataBid |-> bid, enhanced |-> FALSE, suffixes |-> 0]]
    /\ observers' = Enqueue(observers, << [added |-> 1] >>)
    /\ last' = NoScan
    /\ heard' = NoNotification
    /\ UNCHANGED <<popup, edits>>
    /\ UNCHANGED <<location, pc, fetched, currentHost, currentRules, observerHandle,
                   store, notifQ, cards, styleCount, unscanned>>

\* Somebody (a popup instance) writes a new value under STORAGE_KEY; onChanged
\* is dispatched to the listeners registered at that moment
StoreWrite(v) ==
    /\ v # store
    /\ pc = "ready" => Len(notifQ) < MaxNotif
    /\ store' = v
    /\ notifQ' = IF pc = "ready"
                 THEN Append(notifQ, [areaName |-> "sync",
                                      changes |-> Changes(TRUE, store, v)])
                 ELSE notifQ
    /\ last' = NoScan
    /\ heard' = NoNotification
    /\ UNCHANGED <<popup, edits>>
    /\ UNCHANGED <<location, pc, fetched, currentHost, currentRules, observerHandle,
                   observers, cards, buttons, styleCount, unscanned>>

\* The same write while the listener may have up to limit notifications waiting
StoreWriteWithin(v, limit) ==
    /\ v # store
    /\ pc = "ready" => Len(notifQ) < limit
    /\ store' = v
    /\ notifQ' = IF pc = "ready"
                 THEN Append(notifQ, [areaName |-> "sync",
                                      changes |-> Changes(TRUE, store, v)])
                 ELSE notifQ
    /\ last' = NoScan
    /\ heard' = NoNotification
    /\ UNCHANGED <<popup, edits>>
    /\ UNCHANGED <<location, pc, fetched, currentHost, currentRules, observerHandle,
                   observers, cards, buttons, styleCount, unscanned>>

(***************************************************************************)
(* The rule editor (popup.js). Every operation is an async handler: it     *)
(* awaits loadAllRules(), changes its copy and awaits saveAllRules(copy).  *)
(* A popup slot holds one operation between its load and its save; two     *)
(* slots are two popup instances, or two handlers of one instance in       *)
(* flight together.                                                        *)
(***************************************************************************)
IdlePopup ==
    [pc |-> "idle", host |-> Empty, name |-> "", kind |-> "", phrase |-> Empty,
     all |-> NoMapping]

\* What the user types into an input, and the phrase of a Remove button
PopupInputs == { <<"a">>, <<"b", " ">>, <<" ">> }

ListedPhrases == { <<"a">> }

\* The host of the active tab; "" when there is none
PopupHosts == StoredHosts \cup {Empty}

Kinds == {"include", "exclude"}

\* (s || "").trim()
normalizePhrase(s) == trim(s)

\* Variant: the list is saved as it is, duplicates included
uniq_KeepsAll(arr) == arr

\* Array.from(new Set(arr)): the first occurrence of each element, in order
RECURSIVE uniq(_)
uniq(arr) ==
    IF arr = <<>> THEN <<>>
    ELSE LET front == uniq(SubSeq(arr, 1, Len(arr) - 1))
             x == arr[Len(arr)]
         IN  IF \E i \in 1..Len(front) : front[i] = x THEN front
             ELSE Append(front, x)

\* arr.filter((p) => p !== phrase)
RECURSIVE without(_, _)
without(arr, phrase) ==
    IF arr = <<>> THEN <<>>
    ELSE IF Head(arr) = phrase THEN without(Tail(arr), phrase)
         ELSE <<Head(arr)>> \o without(Tail(arr), phrase)

\* loadAllRules(): the stored mapping, {} when the item is absent
loadAllRules(value) == IF value.present THEN value ELSE Mapping(NoEntry, NoEntry)

\* rulesByHost[host] || defaultSiteRules()
siteRulesOf(rulesByHost, host) ==
    IF rulesByHost.byHost[host].present THEN rulesByHost.byHost[host]
    ELSE Entry(Array(<<>>), Array(<<>>))

\* (siteRules.includePhrases || []), for either field
phrasesOr(field) == IF field.kind = "array" THEN field.items ELSE <<>>

FieldOf(kind) == IF kind = "include" THEN "includePhrases" ELSE "excludePhrases"

\* rulesByHost[host] = siteRules
withHost(rulesByHost, host, siteRules) ==
    [rulesByHost EXCEPT !.byHost[host] = siteRules]

\* The mapping addPhrase saves
addPhrase(rulesByHost, host, kind, phrase) ==
    withHost(rulesByHost, host,
             [siteRulesOf(rulesByHost, host) EXCEPT
                 ![FieldOf(kind)] = Array(uniq(Append(phrasesOr(@), phrase)))])

\* The mapping an onRemove handler saves
onRemove(rulesByHost, host, kind, phrase) ==
    withHost(rulesByHost, host,
             [siteRulesOf(rulesByHost, host) EXCEPT
                 ![FieldOf(kind)] = Array(without(phrasesOr(@), phrase))])

\* resetSite saves only when the host has an entry
resetSiteSaves(rulesByHost, host) == rulesByHost.byHost[host].present

resetSite(rulesByHost, host) == withHost(rulesByHost, host, NoEntry)

\* The mapping the operation in slot p hands to saveAllRules
Saved(op) ==
    IF op.name = "add" THEN addPhrase(op.all, op.host, op.kind, op.phrase)
    ELSE IF op.name = "remove" THEN onRemove(op.all, op.host, op.kind, op.phrase)
    ELSE resetSite(op.all, op.host)

Saves(op) == op.name = "reset" => resetSiteSaves(op.all, op.host)

\* An operation starts and its loadAllRules() completes. addPhrase returns
\* before loading on an unknown host or a blank phrase, resetSite on an
\* unknown host.
PopupLoad(p, host, name, kind, phrase) ==
    /\ popup[p].pc = "idle"
    /\ edits < MaxEdits
    /\ name \in {"add", "reset"} => host # Empty
    /\ host \in StoredHosts
    /\ name = "add" => phrase # Empty
    /\ popup' = [popup EXCEPT ![p] =
                    [pc |-> "loaded", host |-> host, name |-> name, kind |-> kind,
                     phrase |-> phrase, all |-> loadAllRules(store)]]
    /\ edits' = edits + 1
    /\ last' = NoScan
    /\ heard' = NoNotification
    /\ UNCHANGED <<location, pc, fetched, currentHost, currentRules, observerHandle,
                   observers, store, notifQ, cards, buttons, styleCount, unscanned>>

\* chrome.storage.sync.set of the operation's copy; the listener of a content
\* script that registered one is notified when the value changed
PopupSave(p) ==
    /\ popup[p].pc = "loaded"
    /\ LET value == IF Saves(popup[p]) THEN Saved(popup[p]) ELSE store
       IN  /\ (pc = "ready" /\ value # store) => Len(notifQ) < MaxNotif
           /\ store' = value
           /\ notifQ' = IF pc = "ready" /\ value # store
                        THEN Append(notifQ, [areaName |-> "sync",
                                             changes |-> Changes(TRUE, store, value)])
                        ELSE notifQ
    /\ popup' = [popup EXCEPT ![p] = IdlePopup]
    /\ last' = NoScan
    /\ heard' = NoNotification
    /\ UNCHANGED <<location, pc, fetched, currentHost, currentRules, observerHandle,
                   observers, cards, buttons, styleCount, unscanned, edits>>

\* An operation that returns before it loads: addPhrase and resetSite without
\* a host, addPhrase with a blank phrase. It writes nothing.
PopupReturnsEarly(host, name, phrase) ==
    /\ edits < MaxEdits
    /\ name \in {"add", "reset"}
    /\ host = Empty \/ (name = "add" /\ phrase = Empty)
    /\ edits' = edits + 1
    /\ last' = NoScan
    /\ heard' = NoNotification
    /\ UNCHANGED <<location, pc, fetched, currentHost, currentRules, observerHandle,
                   observers, store, notifQ, cards, buttons, styleCount, unscanned,
                   popup>>

AddPhrase ==
    \E p \in Popups, host \in PopupHosts, kind \in Kinds, input \in PopupInputs :
        PopupLoad(p, host, "add", kind, normalizePhrase(input))

RemovePhrase ==
    \E p \in Popups, host \in PopupHosts, kind \in Kinds, phrase \in ListedPhrases :
        PopupLoad(p, host, "remove", kind, phrase)

ResetSite ==
    \E p \in Popups, host \in PopupHosts : PopupLoad(p, host, "reset", "", Empty)

Save == \E p \in Popups : PopupSave(p)

Rejected ==
    \/ \E host \in PopupHosts, input \in PopupInputs :
          PopupReturnsEarly(host, "add", normalizePhrase(input))
    \/ PopupReturnsEarly(Empty, "reset", Empty)

(***************************************************************************)
(* The specification.                                                      *)
(***************************************************************************)
\* safeHostFromLocation yields "" (the hostname is empty or reading it throws)
HostUndeterminable == location.throws \/ location.host = Empty

Init ==
    /\ location \in Locations
    /\ pc = "start"
    /\ fetched = NoMapping
    /\ currentHost = Empty
    /\ currentRules = defaultSiteRules
    /\ observerHandle = 0
    /\ observers = <<>>
    /\ store \in StoreValues
    /\ notifQ = <<>>
    /\ heard = NoNotification
    /\ popup = [p \in Popups |-> IdlePopup]
    /\ edits = 0
    /\ cards = [c \in Cards |-> NoCard]
    /\ buttons = [b \in Buttons |-> NoButton]
    /\ styleCount = 0
    /\ unscanned = {}
    /\ last = NoScan

Deliver == \E i \in 1..Len(observers) : ObserverCallback(i)

PageAddCard == \E c \in Cards, card \in PageCards : AddCard(c, card)

PageRemoveCard == \E c \in Cards : RemoveCard(c)

PageSetTitleAttribute == \E c \in Cards, t \in PageTitleEls : SetTitleAttribute(c, t)

PageSetTitleText ==
    \E c \in Cards, t \in PageTitleEls, replaceNode \in BOOLEAN :
        SetTitleText(c, t, replaceNode)

PageRemoveTitleElement == \E c \in Cards : RemoveTitleElement(c)

PageAddButton == \E b \in Buttons, bid \in PageBids : AddButton(b, bid)

Write == \E v \in StoreValues : StoreWrite(v)

Next ==
    \/ InitBegin
    \/ StorageGet
    \/ StorageGetFails
    \/ InitResume
    \/ DeliverNotification
    \/ UnrelatedNotification
    \/ Deliver
    \/ PageAddCard
    \/ PageRemoveCard
    \/ PageSetTitleAttribute
    \/ PageSetTitleText
    \/ PageRemoveTitleElement
    \/ PageAddButton
    \/ Write

Spec == Init /\ [][Next]_vars

(***************************************************************************)
(* Rapid writes: up to MaxBurst notifications wait for the listener, on a  *)
(* page that inserts and removes cards.                                          *)
(***************************************************************************)
WriteBurst == \E v \in StoreValues : StoreWriteWithin(v, MaxBurst)

BurstNext ==
    \/ InitBegin
    \/ StorageGet
    \/ StorageGetFails
    \/ InitResume
    \/ DeliverNotification
    \/ Deliver
    \/ PageAddCard
    \/ PageRemoveCard
    \/ WriteBurst

BurstSpec == Init /\ [][BurstNext]_vars

(***************************************************************************)
(* The rule editor alone, over a store that is absent or holds entries for *)
(* both hosts; no content script runs.                                     *)
(***************************************************************************)
EditorInit ==
    /\ Init
    /\ location = Location(FALSE, WWW_BIDFTA)
    /\ store \in {NoMapping, Mapping(EntryBoth, EntryExc)}

EditorNext ==
    \/ AddPhrase
    \/ RemovePhrase
    \/ ResetSite
    \/ Save

EditorSpec == EditorInit /\ [][EditorNext]_vars

(***************************************************************************)
(* The rule editor running addPhrase operations only, from two slots.      *)
(***************************************************************************)
AddOnlyNext ==
    \/ AddPhrase
    \/ Save

AddOnlySpec == EditorInit /\ [][AddOnlyNext]_vars

(***************************************************************************)
(* The rule editor started on an empty store, with every operation and the *)
(* operations that return early.                                           *)
(***************************************************************************)
FromEmptyInit ==
    /\ Init
    /\ location = Location(FALSE, WWW_BIDFTA)
    /\ store = NoMapping

FromEmptyNext ==
    \/ AddPhrase
    \/ RemovePhrase
    \/ ResetSite
    \/ Save
    \/ Rejected

FromEmptySpec == FromEmptyInit /\ [][FromEmptyNext]_vars

(***************************************************************************)
(* The rule editor and the content script of one open page together: the   *)
(* page inserts cards, one popup over the page's tab adds and removes      *)
(* phrases for the page's host.                                            *)
(***************************************************************************)
LiveAddPhrase ==
    \E kind \in Kinds, input \in PopupInputs :
        PopupLoad(1, location.host, "add", kind, normalizePhrase(input))

LiveRemovePhrase ==
    \E kind \in Kinds, phrase \in ListedPhrases :
        PopupLoad(1, location.host, "remove", kind, phrase)

LiveSave == PopupSave(1)

LiveEditInit ==
    /\ Init
    /\ ~HostUndeterminable
    /\ store = NoMapping

LiveEditNext ==
    \/ InitBegin
    \/ StorageGet
    \/ InitResume
    \/ DeliverNotification
    \/ Deliver
    \/ PageAddCard
    \/ LiveAddPhrase
    \/ LiveRemovePhrase
    \/ LiveSave

LiveEditSpec == LiveEditInit /\ [][LiveEditNext]_vars

(***************************************************************************)
(* A page that makes no mutation of its own once it is loaded: it holds    *)
(* its cards and bid buttons from the start. Only the content script runs, *)
(* and the store is written.                                               *)
(***************************************************************************)
PageButtons ==
    { [present |-> TRUE, dataBid |-> bid, enhanced |-> FALSE, suffixes |-> 0] :
        bid \in PageBids }

QuietInit ==
    /\ location \in Locations
    /\ pc = "start"
    /\ fetched = NoMapping
    /\ currentHost = Empty
    /\ currentRules = defaultSiteRules
    /\ observerHandle = 0
    /\ observers = <<>>
    /\ store \in StoreValues
    /\ notifQ = <<>>
    /\ heard = NoNotification
    /\ popup = [p \in Popups |-> IdlePopup]
    /\ edits = 0
    /\ cards \in [Cards -> PageCards \cup {NoCard}]
    /\ buttons \in [Buttons -> PageButtons \cup {NoButton}]
    /\ styleCount = 0
    /\ unscanned = { c \in Cards : cards[c].present }
    /\ last = NoScan

QuietNext ==
    \/ InitBegin
    \/ StorageGet
    \/ StorageGetFails
    \/ InitResume
    \/ DeliverNotification
    \/ Deliver
    \/ Write

QuietSpec == QuietInit /\ [][QuietNext]_vars

\* The browser delivers every queued mutation batch
QuietFairSpec == QuietSpec /\ WF_vars(Deliver)

(***************************************************************************)
(* Vocabulary of the properties.                                           *)
(***************************************************************************)
\* The elements the current host's item selector matches
Selected(c) == MatchesItemSelector(cards[c], getItemSelectorForHost(currentHost))

\* The normalized title the classifier extracts from card c
NormalizedTitle(c) == normalizeText(getTitleTextFromCard(currentHost, cards[c]))

\* Some normalized phrase of the list occurs in the title
Occurs(title, phraseList) ==
    \E i \in 1..Len(normalizePhrases(phraseList)) :
        includes(title, normalizePhrases(phraseList)[i])

\* The classification of section 4.4
Classification(title, rules) ==
    IF title = Empty THEN "Neutral"
    ELSE IF Occurs(title, rules.excludePhrases) THEN "Excluded"
    ELSE IF Occurs(title, rules.includePhrases) THEN "Included"
    ELSE "Neutral"

\* What the two markers of a card say
Markers(card) ==
    IF card.hidden /\ card.highlight THEN "Both"
    ELSE IF card.hidden THEN "Excluded"
    ELSE IF card.highlight THEN "Included"
    ELSE "Neutral"

\* The step just taken ran a scan; ScanRules are the rules it used
Scanned == last.scans # <<>>

ScanRules == last.scans[Len(last.scans)]

\* The step just taken was an observer callback (it was handed records)
WasObserverCallback == last.records > 0

(***************************************************************************)
(* C1. Exclude precedence: right after a scan, every scanned card whose    *)
(* normalized title is non-empty and contains a normalized exclude phrase  *)
(* of the rules used carries the exclusion marker and not the highlight    *)
(* marker, whether or not an include phrase occurs in the title too.       *)
(***************************************************************************)
C1_ExcludeWins ==
    \A c \in Cards :
        ( /\ Scanned
          /\ Selected(c)
          /\ NormalizedTitle(c) # Empty
          /\ Occurs(NormalizedTitle(c), ScanRules.excludePhrases) )
        => cards[c].hidden /\ ~cards[c].highlight

\* A scanned card whose title holds an include and an exclude phrase, excluded
C1_Witness ==
    \E c \in Cards :
        /\ Scanned
        /\ Selected(c)
        /\ Occurs(NormalizedTitle(c), ScanRules.excludePhrases)
        /\ Occurs(NormalizedTitle(c), ScanRules.includePhrases)
        /\ cards[c].hidden /\ ~cards[c].highlight

(***************************************************************************)
(* C2. Right after a scan, every scanned card whose title element is       *)
(* missing, whose host has an empty title selector, or whose extracted     *)
(* title normalizes to the empty string carries neither marker, whatever   *)
(* the rules hold.                                                         *)
(***************************************************************************)
C2_EmptyTitleNeutral ==
    \A c \in Cards :
        ( /\ Scanned
          /\ Selected(c)
          /\ \/ ~cards[c].titleEl.present
             \/ getTitleSelectorForHost(currentHost) = ""
             \/ NormalizedTitle(c) = Empty )
        => ~cards[c].hidden /\ ~cards[c].highlight

\* A scanned element with an <h4> reading "Ab" on a host whose title selector
\* is empty, under rules whose exclude list holds "b": left neutral
C2_Witness ==
    \E c \in Cards :
        /\ Scanned
        /\ Selected(c)
        /\ cards[c].titleEl.present
        /\ getTitleSelectorForHost(currentHost) = ""
        /\ Occurs(normalizeText(cards[c].titleEl.text), ScanRules.excludePhrases)
        /\ ~cards[c].hidden /\ ~cards[c].highlight

(***************************************************************************)
(* C3. In every reachable state no card carries both the highlight marker  *)
(* and the exclusion marker.                                               *)
(***************************************************************************)
C3_MarkersExclusive ==
    \A c \in Cards : ~(cards[c].hidden /\ cards[c].highlight)

\* A card excluded by a scan that a rules change ran (no callback records)
C3_Witness ==
    \E c \in Cards :
        /\ Scanned /\ ~WasObserverCallback /\ pc = "ready"
        /\ ScanRules # defaultSiteRules
        /\ Selected(c) /\ cards[c].hidden

(***************************************************************************)
(* C4. An observer callback runs exactly one scan when at least one record *)
(* of its batch has a non-empty addedNodes, and none otherwise; and after  *)
(* a scan the only records queued are those of its node insertions (style  *)
(* element, button texts): the marker-attribute writes queue none, so they *)
(* never cause a scan.                                                     *)
(***************************************************************************)
C4_OneScanPerAddingBatch ==
    /\ WasObserverCallback =>
          Len(last.scans) = (IF last.adding > 0 THEN 1 ELSE 0)
    /\ Scanned =>
          \A i \in 1..Len(observers) : Len(observers[i].records) = last.inserted

\* A batch of two records that both add a node ran one scan, which marked a
\* card and queued nothing
C4_Witness ==
    /\ last.records = 2 /\ last.adding = 2
    /\ Len(last.scans) = 1
    /\ last.inserted = 0
    /\ \E c \in Cards : Selected(c) /\ Markers(cards[c]) # "Neutral"

(***************************************************************************)
(* C5. At most one mutation observer is connected, observerHandle is that  *)
(* observer, the rules its callback captured are currentRules, and every   *)
(* scan an observer callback runs uses currentRules.                       *)
(***************************************************************************)
C5_ObserverHasCurrentRules ==
    /\ Len(observers) <= 1
    /\ observerHandle = Len(observers)
    /\ \A i \in 1..Len(observers) : observers[i].rules = currentRules
    /\ (WasObserverCallback /\ Scanned) => ScanRules = currentRules

\* An observer callback scanned with rules that differ from the defaults
\* while the store already holds other rules for the host
C5_Witness ==
    /\ WasObserverCallback /\ Scanned
    /\ ScanRules = currentRules
    /\ currentRules # defaultSiteRules
    /\ loadSiteRules(store, currentHost) # currentRules
    /\ Len(observers) = 1

(***************************************************************************)
(* C6. Under fair delivery of mutation batches and change notifications,   *)
(* every card inserted while the watcher is installed, and not yet visited *)
(* by a scan, is eventually visited by one (or removed by the page); and   *)
(* whenever a scan visits a card it had not visited, the scan's rules are  *)
(* the rules current at that moment.                                       *)
(***************************************************************************)
FairSpec == Spec /\ WF_vars(Deliver) /\ WF_vars(DeliverNotification)

\* C6: an unvisited matching card is eventually visited, with the current rules
C6_AddedCardEventuallyScanned ==
    /\ \A c \in Cards :
          (pc = "ready" /\ c \in unscanned /\ Selected(c)) ~> (c \notin unscanned)
    /\ [][ \A c \in Cards :
              (c \in unscanned /\ c \notin unscanned' /\ cards'[c].present)
              => (last'.scans # <<>> /\ last'.scans[1] = currentRules') ]_vars

\* The scan of a rules change has visited and marked a card
C6_Witness ==
    \E c \in Cards :
        /\ heard.areaName = "sync" /\ Scanned
        /\ Selected(c) /\ c \notin unscanned
        /\ Markers(cards[c]) # "Neutral"
        /\ last.inserted = 0
        /\ currentRules = loadSiteRules(store, currentHost)

(***************************************************************************)
(* C7. Whenever no batch with an added node and no change notification is  *)
(* pending, every element matching the host's card selector has markers    *)
(* equal to the classification of its current title under the current      *)
(* rules.                                                                  *)
(***************************************************************************)
AddedIn(obs) ==
    \E i \in 1..Len(obs) :
        \E k \in 1..Len(obs[i].records) : obs[i].records[k].added > 0

PendingAdded == AddedIn(observers)

PendingBatch == \E i \in 1..Len(observers) : observers[i].records # <<>>

\* The markers of a matching card are not the classification of its title
StaleCard(card, rules) ==
    /\ MatchesItemSelector(card, getItemSelectorForHost(currentHost))
    /\ Markers(card) #
          Classification(normalizeText(getTitleTextFromCard(currentHost, card)), rules)

Stale(c) == StaleCard(cards[c], currentRules)

\* C7 as stated: with nothing pending no matching card is stale, whatever
\* kind of mutation the page made
C7_AsStated ==
    (~PendingBatch /\ notifQ = <<>>) => \A c \in Cards : ~Stale(c)

\* C7 amended: right after a scan every matching element is classified under the
\* current rules, and while nothing is pending a card only becomes stale by a
\* step of the page that changes its title element
C7_LiveUnlessTitleChangedSilently ==
    [][ \A c \in Cards :
           /\ last'.scans # <<>> => ~StaleCard(cards'[c], currentRules')
           /\ ( /\ StaleCard(cards'[c], currentRules')
                /\ ~AddedIn(observers')
                /\ notifQ' = <<>> )
              => \/ Stale(c) /\ ~PendingAdded /\ notifQ = <<>>
                 \/ cards'[c].titleEl # cards[c].titleEl /\ cards[c].present ]_vars

\* A batch holding a removal and an insertion has been scanned, and the card
\* carries the markers of its title
C7_Witness ==
    \E c \in Cards :
        /\ last.records = 2 /\ last.adding = 1 /\ Scanned
        /\ Selected(c) /\ Markers(cards[c]) = "Excluded"
        /\ ~PendingBatch /\ notifQ = <<>>

(***************************************************************************)
(* C8. A step in which the listener is handed a notification whose area is *)
(* not "sync", or whose changes lack STORAGE_KEY, leaves currentRules, the *)
(* installed observer (its rules and its queued records) and every card's  *)
(* markers unchanged, and runs no scan.                                    *)
(***************************************************************************)
Unrelated(n) == n.areaName # "" /\ (n.areaName # "sync" \/ ~n.changes.hasKey)

\* C8: a step handling an unrelated notification changes nothing and scans nothing
C8_UnrelatedNotificationIgnored ==
    [][ Unrelated(heard')
        => /\ UNCHANGED <<currentRules, observerHandle, observers, cards, buttons,
                          styleCount, unscanned>>
           /\ last'.scans = <<>> ]_vars

\* A notification of area "local" that carries STORAGE_KEY has been ignored
\* on a page with non-default rules, a marked card and a pending record
C8_Witness ==
    /\ heard.areaName = "local" /\ heard.changes.hasKey
    /\ currentRules # loadSiteRules(heard.changes.newValue, currentHost)
    /\ ~Scanned
    /\ PendingAdded
    /\ \E c \in Cards : Markers(cards[c]) # "Neutral"

(***************************************************************************)
(* C9. A notification for STORAGE_KEY in which the current host's entry is *)
(* the same in oldValue and newValue.                                      *)
(***************************************************************************)
HostEntry(value) ==
    IF value.present /\ currentHost \in DOMAIN value.byHost
    THEN value.byHost[currentHost]
    ELSE NoEntry

OtherHostOnly(n) ==
    /\ n.areaName = "sync" /\ n.changes.hasKey
    /\ HostEntry(n.changes.oldValue) = HostEntry(n.changes.newValue)

EntryRules(entry) ==
    [includePhrases |-> IF entry.present /\ entry.includePhrases.kind # "missing"
                        THEN entry.includePhrases ELSE Array(<<>>),
     excludePhrases |-> IF entry.present /\ entry.excludePhrases.kind # "missing"
                        THEN entry.excludePhrases ELSE Array(<<>>)]

\* C9 as stated: such a notification leaves every card's markers unchanged
C9_AsStated ==
    [][ OtherHostOnly(heard')
        => \A c \in Cards : Markers(cards'[c]) = Markers(cards[c]) ]_vars

\* C9 amended: it leaves unchanged the markers of every matching card whose
\* markers are already the classification of its title under that entry
C9_ClassifiedCardsUnchanged ==
    [][ OtherHostOnly(heard')
        => \A c \in Cards :
              ( /\ Selected(c)
                /\ Markers(cards[c]) =
                      Classification(NormalizedTitle(c),
                                     EntryRules(HostEntry(heard'.changes.oldValue))) )
              => Markers(cards'[c]) = Markers(cards[c]) ]_vars

\* Such a notification has been handled on a page with an excluded card
C9_Witness ==
    \E c \in Cards :
        /\ OtherHostOnly(heard) /\ Scanned
        /\ Selected(c)
        /\ Markers(cards[c]) = "Excluded"
        /\ heard.changes.oldValue # heard.changes.newValue

(***************************************************************************)
(* C10. Until init() has resumed with the fetched value there is no        *)
(* observer, no scan and no marker; the step that resumes it installs one  *)
(* observer and runs one scan with the defaulted entry of the current host *)
(* in the fetched value; from then on one observer stays installed.        *)
(***************************************************************************)
Idle == observers = <<>> /\ observerHandle = 0

Watching == Len(observers) = 1 /\ observerHandle = 1

BeforeRulesReady ==
    pc # "ready" =>
        /\ Idle
        /\ ~Scanned
        /\ styleCount = 0
        /\ \A c \in Cards : Markers(cards[c]) = "Neutral"

\* C10: idle until init() resumes; that step scans with the fetched rules and
\* starts watching; watching is never left
C10_ScanAfterFetch ==
    [][ /\ BeforeRulesReady /\ BeforeRulesReady'
        /\ (pc # "ready" /\ pc' = "ready") =>
              /\ pc = "fetched"
              /\ last'.scans = << EntryRules(HostEntry(fetched)) >>
              /\ currentRules' = EntryRules(HostEntry(fetched))
              /\ Watching'
        /\ pc = "ready" => (pc' = "ready" /\ Watching /\ Watching') ]_vars

\* init() has just resumed: the first scan used fetched rules that are not
\* the defaults and marked a card that was waiting on the page
C10_Witness ==
    \E c \in Cards :
        /\ pc = "ready" /\ Scanned /\ ~WasObserverCallback
        /\ heard = NoNotification
        /\ ScanRules # defaultSiteRules
        /\ Selected(c) /\ Markers(cards[c]) # "Neutral"
        /\ Watching

(***************************************************************************)
(* C11. When the page host cannot be determined (window.location.host is   *)
(* empty, or reading it throws), init() stops at its first return: in      *)
(* every reachable state it has not fetched, there is no observer, no scan *)
(* has run, no card is marked, and no change notification is ever queued   *)
(* for the listener, which was never registered.                           *)
(***************************************************************************)
C11_NoHostNoInit ==
    HostUndeterminable =>
        /\ pc \in {"start", "aborted"}
        /\ fetched = NoMapping
        /\ currentRules = defaultSiteRules
        /\ observers = <<>> /\ observerHandle = 0
        /\ ~Scanned
        /\ styleCount = 0
        /\ notifQ = <<>> /\ heard = NoNotification
        /\ \A c \in Cards : Markers(cards[c]) = "Neutral"

\* Reading the location threw; init() has returned, and a card whose title
\* the stored rules would exclude sits unmarked on the page
C11_Witness ==
    /\ location.throws
    /\ pc = "aborted"
    /\ \E c \in Cards :
          /\ cards[c].present /\ cards[c].titleEl.present
          /\ Occurs(normalizeText(cards[c].titleEl.text),
                    EntryOf(store, WWW_BIDFTA).excludePhrases)
          /\ Markers(cards[c]) = "Neutral"

(***************************************************************************)
(* C12. The waiting notifications are in the order of the writes, the      *)
(* listener takes the oldest one, alone; the step that handles it sets     *)
(* currentRules to the defaulted entry of the current host in its newValue *)
(* (whatever currentRules was), replaces the observer by a fresh one that  *)
(* captured these rules, and runs exactly one scan with them.              *)
(***************************************************************************)
Relevant(n) == n.areaName = "sync" /\ n.changes.hasKey

InWriteOrder(queue, value) ==
    /\ \A i \in 1..(Len(queue) - 1) :
          queue[i].changes.newValue = queue[i + 1].changes.oldValue
    /\ queue # <<>> => queue[Len(queue)].changes.newValue = value

\* C12: relevant notifications are handled one at a time in delivery order,
\* each superseding the snapshot, with one observer reinstall and one scan
C12_NotificationsInOrder ==
    [][ /\ InWriteOrder(notifQ', store')
        /\ Relevant(heard') =>
              /\ notifQ # <<>>
              /\ heard' = Head(notifQ)
              /\ UNCHANGED <<popup, edits>>
              /\ notifQ' = Tail(notifQ)
              /\ currentRules' = EntryRules(HostEntry(heard'.changes.newValue))
              /\ last'.scans = << currentRules' >>
              /\ Len(observers') = 1
              /\ observerHandle' = 1
              /\ observers'[1].rules = currentRules'
              /\ Len(observers'[1].records) = last'.inserted ]_vars

\* The first of two waiting notifications has been handled: the snapshot is
\* its entry, which is neither the previous snapshot's nor the store's
C12_Witness ==
    /\ Relevant(heard)
    /\ notifQ # <<>>
    /\ currentRules = EntryRules(HostEntry(heard.changes.newValue))
    /\ currentRules # EntryRules(HostEntry(heard.changes.oldValue))
    /\ currentRules # EntryRules(HostEntry(store))
    /\ Scanned /\ Watching

(***************************************************************************)
(* C13. Once init() has registered the listener and every notification has *)
(* been handled, currentRules is the defaulted entry of the current host   *)
(* in the store's current value.                                           *)
(***************************************************************************)
C13_InSyncOnceDelivered ==
    (pc = "ready" /\ notifQ = <<>>) => currentRules = EntryRules(HostEntry(store))

(***************************************************************************)
(* C14. With a determinable host, init() never ends without the initial    *)
(* scan, the watcher and the change subscription: whenever it is past its  *)
(* fetch it has resumed, an observer is installed and the listener is      *)
(* registered, whatever the fetch yielded.                                 *)
(***************************************************************************)
C14_InitEndsWatching ==
    (~HostUndeterminable /\ pc \notin {"start", "fetching", "fetched"})
        => (pc = "ready" /\ Watching /\ styleCount > 0)

(***************************************************************************)
(* C15. Right after the listener handled a STORAGE_KEY notification whose  *)
(* newValue has no entry for the current host (the key removed, or the     *)
(* host's entry deleted by a reset), currentRules and the new observer's   *)
(* rules are the empty rules, the scan it ran used them, and every card    *)
(* the item selector matches carries neither marker.                       *)
(***************************************************************************)
C15_ResetClearsMarkers ==
    ( Relevant(heard) /\ HostEntry(heard.changes.newValue) = NoEntry )
    => /\ currentRules = defaultSiteRules
       /\ last.scans = << defaultSiteRules >>
       /\ \A i \in 1..Len(observers) : observers[i].rules = defaultSiteRules
       /\ \A c \in Cards : Selected(c) => Markers(cards[c]) = "Neutral"

\* The host's entry has just been removed; a card whose title the removed
\* entry classified as excluded or included is neutral
C15_Witness ==
    /\ Relevant(heard)
    /\ HostEntry(heard.changes.newValue) = NoEntry
    /\ HostEntry(heard.changes.oldValue).present
    /\ currentRules = defaultSiteRules
    /\ \E c \in Cards :
          /\ Selected(c)
          /\ Classification(NormalizedTitle(c),
                            EntryRules(HostEntry(heard.changes.oldValue))) # "Neutral"
          /\ Markers(cards[c]) = "Neutral"

(***************************************************************************)
(* C16. applyRulesToCard is idempotent and ignores the markers it finds:   *)
(* for every card on the page, the current rules and every combination of  *)
(* prior markers, the result is the result for the unmarked card, applying *)
(* it again changes nothing, and the markers it leaves are the             *)
(* classification of the card's title under the rules.                     *)
(***************************************************************************)
WithMarkers(card, highlight, hidden) ==
    [card EXCEPT !.highlight = highlight, !.hidden = hidden]

C16_ClassificationIdempotent ==
    \A c \in Cards : Selected(c) =>
        \A h \in BOOLEAN, x \in BOOLEAN :
            \A once \in { applyRulesToCard(currentHost, WithMarkers(cards[c], h, x),
                                           currentRules) } :
                /\ once = applyRulesToCard(currentHost, WithMarkers(cards[c], FALSE, FALSE),
                                           currentRules)
                /\ applyRulesToCard(currentHost, once, currentRules) = once
                /\ Markers(once) = Classification(NormalizedTitle(c), currentRules)

\* A card still marked included whose title the current rules exclude: the
\* next application starts from markers that differ from its result
C16_Witness ==
    \E c \in Cards :
        /\ Selected(c)
        /\ Markers(cards[c]) = "Included"
        /\ Classification(NormalizedTitle(c), currentRules) = "Excluded"
        /\ Markers(applyRulesToCard(currentHost, cards[c], currentRules)) = "Excluded"

(***************************************************************************)
(* C17. A scan changes nothing of a card but its two marker attributes:    *)
(* the inline display, the element itself and its title element are as     *)
(* before. A card that carries the exclusion marker is therefore still in  *)
(* the document and not display:none, and the overlay the style sheet      *)
(* draws over it has pointer-events: none.                                 *)
(***************************************************************************)
InLayout(card) == card.present /\ card.display # "none"

OverlayInterceptsPointer(card) ==
    card.hidden /\ styleCount > 0 /\ HiddenOverlayCss.pointerEvents # "none"

C17_ExclusionOnlyMarks ==
    [][ \A c \in Cards :
          /\ Scanned' =>
                WithMarkers(cards'[c], FALSE, FALSE) = WithMarkers(cards[c], FALSE, FALSE)
          /\ cards'[c].hidden =>
                InLayout(cards'[c]) /\ ~OverlayInterceptsPointer(cards'[c]) ]_vars

\* A card the page styled display: flex has been marked excluded by a scan
\* and kept its display
C17_Witness ==
    \E c \in Cards :
        /\ Scanned /\ Selected(c)
        /\ cards[c].hidden
        /\ cards[c].display = "flex"
        /\ styleCount > 0

(***************************************************************************)
(* C18. On a host that matches no entry of the domain table, a scan uses   *)
(* the built-in default item selector and the empty title selector, and    *)
(* leaves every card it matched without markers.                           *)
(***************************************************************************)
\* The default item selector of the revision that had one
DEFAULT_ITEM_SELECTOR ==
    "div[role=\"button\"][aria-label=\"Click to navigate to item details\"]"

NoDomainMatches(host) ==
    \A i \in 1..Len(ITEM_SELECTOR_BY_DOMAIN) :
        ~hostMatchesDomain(host, ITEM_SELECTOR_BY_DOMAIN[i][1])

C18_DefaultSelectorWhenUnlisted ==
    ( Scanned /\ NoDomainMatches(currentHost) )
    => /\ getItemSelectorForHost(currentHost) = DEFAULT_ITEM_SELECTOR
       /\ getTitleSelectorForHost(currentHost) = ""
       /\ \A c \in Cards : Selected(c) => Markers(cards[c]) = "Neutral"

(***************************************************************************)
(* C19. A host matches a domain of the table exactly when it is the domain *)
(* or ends with "." followed by the domain:                                *)
(* bidfta.com, www.bidfta.com and shop.bidfta.com match bidfta.com,        *)
(* notbidfta.com does not. The item selector and the title selector of a   *)
(* host are the values of one and the same table entry, the first whose    *)
(* domain the host matches, or the two fallbacks when none does.           *)
(***************************************************************************)
SHOP_BIDFTA == <<"s", "h", "o", "p", ".">> \o BIDFTA
WWW_GOVDEALS == <<"w", "w", "w", ".">> \o GOVDEALS

HostSamples ==
    { BIDFTA, WWW_BIDFTA, SHOP_BIDFTA, NOT_BIDFTA, GOVDEALS, WWW_GOVDEALS,
      BIDFTA \o <<".", "x">>, <<".">> \o BIDFTA, <<"c", "o", "m">>, Empty }

\* host is domain, or x.domain for some text x (possibly empty, as endsWith
\* allows)
IsDomainOrSubdomain(host, domain) ==
    \/ host = domain
    \/ \E n \in 0..Len(host) :
          /\ Len(host) = n + 1 + Len(domain)
          /\ host[n + 1] = "."
          /\ \A k \in 1..Len(domain) : host[n + 1 + k] = domain[k]

\* The entry (its index in both tables) a host resolves, 0 when none
ResolvedEntry(host) ==
    IF \E i \in 1..Len(ITEM_SELECTOR_BY_DOMAIN) :
          IsDomainOrSubdomain(host, ITEM_SELECTOR_BY_DOMAIN[i][1])
    THEN CHOOSE i \in 1..Len(ITEM_SELECTOR_BY_DOMAIN) :
            /\ IsDomainOrSubdomain(host, ITEM_SELECTOR_BY_DOMAIN[i][1])
            /\ \A j \in 1..(i - 1) :
                  ~IsDomainOrSubdomain(host, ITEM_SELECTOR_BY_DOMAIN[j][1])
    ELSE 0

SelectorsFromOneEntry(host) ==
    /\ \A i \in 1..Len(ITEM_SELECTOR_BY_DOMAIN) :
          /\ ITEM_SELECTOR_BY_DOMAIN[i][1] = TITLE_SELECTOR_BY_DOMAIN[i][1]
          /\ hostMatchesDomain(host, ITEM_SELECTOR_BY_DOMAIN[i][1])
                <=> IsDomainOrSubdomain(host, ITEM_SELECTOR_BY_DOMAIN[i][1])
    /\ IF ResolvedEntry(host) = 0
       THEN /\ getItemSelectorForHost(host) = Undefined
            /\ getTitleSelectorForHost(host) = ""
       ELSE /\ getItemSelectorForHost(host) = ITEM_SELECTOR_BY_DOMAIN[ResolvedEntry(host)][2]
            /\ getTitleSelectorForHost(host) = TITLE_SELECTOR_BY_DOMAIN[ResolvedEntry(host)][2]

C19_HostResolvesDomainEntry ==
    /\ \A host \in HostSamples \cup {currentHost} : SelectorsFromOneEntry(host)
    /\ \A host \in {BIDFTA, WWW_BIDFTA, SHOP_BIDFTA} :
          /\ getItemSelectorForHost(host) = BidftaItemSelector
          /\ getTitleSelectorForHost(host) = "h4"
    /\ ~hostMatchesDomain(NOT_BIDFTA, BIDFTA)
    /\ getItemSelectorForHost(NOT_BIDFTA) # BidftaItemSelector
    /\ getTitleSelectorForHost(NOT_BIDFTA) # "h4"

\* On www.bidfta.com a scan matched a card with the bidfta.com item selector
\* and classified it by the title its bidfta.com title selector found
C19_Witness ==
    /\ Scanned
    /\ currentHost = WWW_BIDFTA
    /\ ResolvedEntry(currentHost) = 1
    /\ \E c \in Cards :
          /\ MatchesItemSelector(cards[c], ITEM_SELECTOR_BY_DOMAIN[1][2])
          /\ querySelector(cards[c], TITLE_SELECTOR_BY_DOMAIN[1][2]).present
          /\ Markers(cards[c]) # "Neutral"

(***************************************************************************)
(* C20. The title a scan classifies is the title attribute of the card's   *)
(* title element when the attribute is present and not the empty string,   *)
(* else the element's text content, else (no title element) the empty      *)
(* string: the extracted title is that text trimmed, and right after a     *)
(* scan the card's markers are its classification under the scan's rules.  *)
(***************************************************************************)
PreferredTitle(titleEl) ==
    IF ~titleEl.present THEN Empty
    ELSE IF titleEl.hasAttr /\ titleEl.attr # Empty THEN titleEl.attr
    ELSE titleEl.text

C20_AttributeBeforeText ==
    \A c \in Cards : Selected(c) =>
        \A titleEl \in { findTitleElementForHost(currentHost, cards[c]) } :
            /\ getTitleTextFromCard(currentHost, cards[c]) = trim(PreferredTitle(titleEl))
            /\ Scanned =>
                  Markers(cards[c]) =
                      Classification(normalizeText(PreferredTitle(titleEl)), ScanRules)

\* A card whose title attribute "a" differs from its text "Ab" was scanned
\* under rules that include "a" and exclude "b": it is included, as the
\* attribute says, not excluded, as the text would say
C20_Witness ==
    \E c \in Cards :
        /\ Scanned /\ Selected(c)
        /\ findTitleElementForHost(currentHost, cards[c]) = cards[c].titleEl
        /\ cards[c].titleEl.hasAttr
        /\ cards[c].titleEl.attr # Empty
        /\ cards[c].titleEl.text # cards[c].titleEl.attr
        /\ Classification(normalizeText(cards[c].titleEl.attr), ScanRules) = "Included"
        /\ Classification(normalizeText(cards[c].titleEl.text), ScanRules) = "Excluded"
        /\ Markers(cards[c]) = "Included"

(***************************************************************************)
(* C21. An editor operation for one host leaves the stored entry of every  *)
(* other host as it was: the step in which an operation saves changes no   *)
(* entry of the store but that of the operation's host.                    *)
(***************************************************************************)
C21_OtherHostsUntouched ==
    [][ \A p \in Popups :
          ( popup[p].pc = "loaded" /\ popup'[p].pc = "idle" )
          => \A h \in StoredHosts \ {popup[p].host} :
                store'.byHost[h] = store.byHost[h] ]_vars

(***************************************************************************)
(* C22. Once things have settled on an open page (init() is over, no       *)
(* editor operation is between its load and its save, no notification and  *)
(* no mutation batch is waiting), the page shows the stored rules of its   *)
(* host: every card whose title contains a stored exclude phrase carries   *)
(* the exclusion marker, every card whose title contains a stored include  *)
(* phrase and no exclude phrase carries the highlight marker, and every    *)
(* other card carries none.                                                *)
(***************************************************************************)
Settled ==
    /\ pc = "ready"
    /\ notifQ = <<>>
    /\ ~PendingBatch
    /\ \A p \in Popups : popup[p].pc = "idle"

C22_SettledPageShowsStoredRules ==
    Settled =>
        \A c \in Cards : Selected(c) =>
            Markers(cards[c]) =
                Classification(NormalizedTitle(c), EntryRules(HostEntry(store)))

(***************************************************************************)
(* C23. normalizePhrases never returns an empty string: not for the sample *)
(* lists (blank and white-space phrases, mixed lists, null, an absent      *)
(* field), not for any field of the stored entries or of currentRules. And *)
(* rules whose phrases are all blank leave every card of the page without  *)
(* markers when applied.                                                   *)
(***************************************************************************)
BlankLists ==
    { Array(<< Empty >>), Array(<< <<" ">> >>), Array(<< Empty, <<" ", " ">> >>),
      Array(<<>>), Null, Missing }

PhraseListSamples ==
    BlankLists \cup { Array(<< Empty, <<"b">> >>), Array(<< <<"A", " ">>, <<" ">>, <<"b">> >>) }

NoEmptyPhrase(list) == \A i \in 1..Len(list) : list[i] # Empty

C23_BlankPhrasesNeverMatch ==
    /\ \A arr \in PhraseListSamples : NoEmptyPhrase(normalizePhrases(arr))
    /\ \A arr \in BlankLists : normalizePhrases(arr) = <<>>
    /\ NoEmptyPhrase(normalizePhrases(currentRules.includePhrases))
    /\ NoEmptyPhrase(normalizePhrases(currentRules.excludePhrases))
    /\ \A h \in StoredHosts :
          /\ NoEmptyPhrase(normalizePhrases(store.byHost[h].includePhrases))
          /\ NoEmptyPhrase(normalizePhrases(store.byHost[h].excludePhrases))
    /\ \A c \in Cards : Selected(c) =>
          \A inc \in BlankLists, exc \in BlankLists :
              Markers(applyRulesToCard(currentHost, cards[c],
                                       [includePhrases |-> inc, excludePhrases |-> exc]))
                  = "Neutral"

\* A scan under rules whose exclude list holds an empty phrase left a card
\* with a non-empty title unmarked
C23_Witness ==
    \E c \in Cards :
        /\ Scanned /\ Selected(c)
        /\ \E i \in 1..Len(ScanRules.excludePhrases.items) :
              ScanRules.excludePhrases.items[i] = Empty
        /\ NormalizedTitle(c) # Empty
        /\ Markers(cards[c]) = "Neutral"

(***************************************************************************)
(* C24. hasAnyPhrase(haystack, phrases) is true exactly when haystack is   *)
(* non-empty and some non-empty element of phrases is a substring of it:   *)
(* for the sample haystacks and lists (the empty list, lists holding an    *)
(* empty string) and for every title and rules list of the page. It is     *)
(* false for the empty list and for the empty haystack.                    *)
(***************************************************************************)
HaystackSamples == { Empty, <<"a">>, <<"a", "b">>, <<" ">> }

PhrasesSamples ==
    { <<>>, << Empty >>, << <<"b">> >>, << Empty, <<"b">> >>, << <<"c">> >>,
      << <<"c">>, <<"a">> >>, << Empty, <<"c">> >> }

IsSubstring(p, h) ==
    \E i \in 0..(Len(h) - Len(p)) : \A k \in 1..Len(p) : h[i + k] = p[k]

PageHaystacks == HaystackSamples \cup { NormalizedTitle(c) : c \in Cards }

PagePhrases ==
    PhrasesSamples \cup { normalizePhrases(currentRules.includePhrases),
                          normalizePhrases(currentRules.excludePhrases) }

\* C24 as stated: any element that is a substring counts, the empty string too
C24_AsStated ==
    \A h \in PageHaystacks, p \in PagePhrases :
        hasAnyPhrase(h, p)
            <=> ( h # Empty /\ p # <<>> /\ \E i \in 1..Len(p) : IsSubstring(p[i], h) )

\* C24: only a non-empty element counts
C24_SomeNonEmptyPhraseOccurs ==
    \A h \in PageHaystacks, p \in PagePhrases :
        /\ hasAnyPhrase(h, p)
              <=> ( h # Empty /\ \E i \in 1..Len(p) :
                                     p[i] # Empty /\ IsSubstring(p[i], h) )
        /\ ~hasAnyPhrase(h, <<>>)
        /\ ~hasAnyPhrase(Empty, p)

\* A scan excluded a card because the second phrase of the exclude list, the
\* first being empty, occurs in its title
C24_Witness ==
    \E c \in Cards :
        /\ Scanned /\ Selected(c)
        /\ ScanRules.excludePhrases.kind = "array"
        /\ Len(ScanRules.excludePhrases.items) = 2
        /\ ScanRules.excludePhrases.items[1] = Empty
        /\ hasAnyPhrase(NormalizedTitle(c), normalizePhrases(ScanRules.excludePhrases))
        /\ cards[c].hidden

(***************************************************************************)
(* C25. What a step that scans changes in the page: of an element the item *)
(* selector matches, the two marker attributes at most; of any other       *)
(* element, nothing; the style element, inserted if there was none; and,   *)
(* on a bidfta.com host only, each button[data-bid] with a numeric bid     *)
(* that was not yet enhanced gets the total appended to its text and the   *)
(* enhanced attribute. Nothing else.                                       *)
(***************************************************************************)
OnlyMarkersDiffer(before, after, matched) ==
    IF matched
    THEN WithMarkers(after, FALSE, FALSE) = WithMarkers(before, FALSE, FALSE)
    ELSE after = before

StyleInjectedOnce(before, after) == after = (IF before = 0 THEN 1 ELSE before)

Enhanced(button) ==
    [button EXCEPT !.enhanced = TRUE, !.suffixes = button.suffixes + 1]

\* C25 as stated: markers and the style element only
C25_AsStated ==
    [][ Scanned' =>
          /\ \A c \in Cards : OnlyMarkersDiffer(cards[c], cards'[c], Selected(c))
          /\ StyleInjectedOnce(styleCount, styleCount')
          /\ buttons' = buttons ]_vars

\* C25: markers, the style element and the bid buttons of a bidfta.com page
C25_ScanFrame ==
    [][ Scanned' =>
          /\ \A c \in Cards : OnlyMarkersDiffer(cards[c], cards'[c], Selected(c))
          /\ StyleInjectedOnce(styleCount, styleCount')
          /\ \A b \in Buttons :
                \/ buttons'[b] = buttons[b]
                \/ /\ hostMatchesDomain(currentHost, BIDFTA)
                   /\ buttons[b].present
                   /\ ~buttons[b].enhanced
                   /\ ~parseFloatIsNaN(buttons[b].dataBid)
                   /\ buttons'[b] = Enhanced(buttons[b]) ]_vars

\* A scan has marked a card and the page holds an enhanced bid button
C25_Witness ==
    /\ Scanned
    /\ styleCount = 1
    /\ \E c \in Cards : Selected(c) /\ Markers(cards[c]) # "Neutral"
    /\ \E b \in Buttons : buttons[b].enhanced /\ buttons[b].suffixes = 1

(***************************************************************************)
(* C26. In every reachable state both fields of currentRules are present   *)
(* and each of them is an array.                                           *)
(***************************************************************************)
C26_SnapshotFieldsAreSequences ==
    /\ currentRules.includePhrases.kind = "array"
    /\ currentRules.excludePhrases.kind = "array"

(***************************************************************************)
(* C27. A step runs at most one scan, whether a mutation batch or a rules  *)
(* change started it and whatever else is waiting. The scan has visited    *)
(* every element the item selector matches when the step ends: each of     *)
(* them carries the markers of its classification under the scan's rules.  *)
(* The nodes the scan inserted are waiting as records at the connected     *)
(* observer when the step ends: they were not delivered inside the scan.   *)
(***************************************************************************)
C27_ScansRunToCompletion ==
    /\ Len(last.scans) <= 1
    /\ Scanned =>
          /\ unscanned \cap Visited(currentHost, cards) = {}
          /\ \A c \in Cards : Selected(c) =>
                Markers(cards[c]) = Classification(NormalizedTitle(c), ScanRules)
          /\ last.inserted > 0 =>
                \A i \in 1..Len(observers) : Len(observers[i].records) >= last.inserted

\* A mutation batch ran a scan while a change notification was waiting; the
\* scan enhanced a button, and the record of that insertion is waiting too
C27_Witness ==
    /\ WasObserverCallback /\ Scanned
    /\ notifQ # <<>>
    /\ last.inserted > 0
    /\ PendingBatch
    /\ \E c \in Cards : Selected(c)

(***************************************************************************)
(* C28. The page never holds more than one style element with the id       *)
(* phrasefilter-style: a step inserts one only if it scans and there was   *)
(* none, and no step removes it.                                           *)
(***************************************************************************)
C28_OneStyleElement ==
    [][ /\ styleCount' <= 1
        /\ styleCount' >= styleCount
        /\ styleCount' > styleCount => (styleCount = 0 /\ Scanned') ]_vars

\* A later scan, run by the observer callback, found the style element of an
\* earlier scan and inserted nothing
C28_Witness ==
    /\ WasObserverCallback /\ Scanned
    /\ styleCount = 1
    /\ last.inserted = 0

(***************************************************************************)
(* C29. On a page that makes no mutation of its own, no observer callback  *)
(* runs a scan: the one scan of init() or of a change notification is the  *)
(* only scan its trigger causes.                                           *)
(***************************************************************************)
C29_OneScanPerTrigger == WasObserverCallback => ~Scanned

(***************************************************************************)
(* C30. On a page that makes no mutation of its own, a scan run by an      *)
(* observer callback (a scan the engine's own insertions caused) inserts   *)
(* nothing and leaves no record waiting, so it causes no further scan; and *)
(* a waiting mutation batch is always followed by a state with no batch    *)
(* waiting.                                                                *)
(***************************************************************************)
C30_RescanChainEnds ==
    /\ [][ (WasObserverCallback' /\ Scanned')
           => (last'.inserted = 0 /\ ~AddedIn(observers')) ]_vars
    /\ PendingBatch ~> ~PendingBatch

\* The scan that init()'s own insertions caused has run on a bidfta.com page
\* with an enhanced button, and nothing is waiting
C30_Witness ==
    /\ WasObserverCallback /\ Scanned
    /\ last.inserted = 0
    /\ ~PendingBatch
    /\ styleCount = 1
    /\ \E b \in Buttons : buttons[b].enhanced

(***************************************************************************)
(* C31. While only addPhrase operations run, no stored phrase is ever      *)
(* lost: whatever a save writes, every phrase the store held for a host in *)
(* its include list or its exclude list is still there afterwards, so the  *)
(* phrases of any two completed operations are both stored.                *)
(***************************************************************************)
StoredPhrases(value, host, kind) ==
    { phrasesOr(value.byHost[host][FieldOf(kind)])[i] :
        i \in 1..Len(phrasesOr(value.byHost[host][FieldOf(kind)])) }

C31_NoAddedPhraseLost ==
    [][ \A h \in StoredHosts, k \in Kinds :
          StoredPhrases(store, h, k) \subseteq StoredPhrases(store', h, k) ]_vars

(***************************************************************************)
(* C32. Started on an empty store, the editor never stores a list that     *)
(* holds a phrase twice. An addPhrase of a phrase that the list it loaded  *)
(* already holds saves that list as it loaded it, and when nothing was     *)
(* written since its load the store is left as it is. The store changes    *)
(* only in the save of an operation with a host and, for addPhrase, a      *)
(* non-blank phrase: an operation without them writes nothing.             *)
(***************************************************************************)
NoDuplicates(list) ==
    \A i \in 1..Len(list), j \in 1..Len(list) : list[i] = list[j] => i = j

Saving(p) == popup[p].pc = "loaded" /\ popup'[p].pc = "idle"

C32_ListsStayDuplicateFree ==
    [][ /\ \A h \in StoredHosts, k \in Kinds :
              NoDuplicates(phrasesOr(store'.byHost[h][FieldOf(k)]))
        /\ \A p \in Popups :
              ( /\ Saving(p)
                /\ popup[p].name = "add"
                /\ popup[p].phrase \in
                      StoredPhrases(popup[p].all, popup[p].host, popup[p].kind) )
              => /\ Saved(popup[p]).byHost[popup[p].host]
                        = popup[p].all.byHost[popup[p].host]
                 /\ popup[p].all = loadAllRules(store) => store' = store
        /\ store' # store =>
              \E p \in Popups :
                  /\ Saving(p)
                  /\ popup[p].host # Empty
                  /\ popup[p].name = "add" => popup[p].phrase # Empty ]_vars

\* An addPhrase of "a" has loaded the include list "a", "b" that the store
\* still holds
C32_Witness ==
    \E p \in Popups :
        /\ popup[p].pc = "loaded"
        /\ popup[p].name = "add"
        /\ popup[p].kind = "include"
        /\ popup[p].phrase = <<"a">>
        /\ popup[p].all = store
        /\ store.byHost[popup[p].host].includePhrases = Array(<< <<"a">>, <<"b">> >>)

(***************************************************************************)
(* C33. A bid button's text carries the total at most once, and exactly    *)
(* when the button has the enhanced attribute. No step changes a button    *)
(* that has the attribute. A button is enhanced only on a host that        *)
(* matches bidfta.com, and a button whose data-bid is not a number is      *)
(* never changed.                                                          *)
(***************************************************************************)
C33_ButtonEnhancedOnce ==
    [][ \A b \in Buttons :
          /\ buttons'[b].suffixes = (IF buttons'[b].enhanced THEN 1 ELSE 0)
          /\ buttons[b].enhanced => buttons'[b] = buttons[b]
          /\ buttons'[b].enhanced => hostMatchesDomain(currentHost', BIDFTA)
          /\ (buttons[b].present /\ parseFloatIsNaN(buttons[b].dataBid))
                => buttons'[b] = buttons[b] ]_vars

\* A scan under rules that a change notification brought found the button
\* enhanced by an earlier scan and left it as it was
C33_Witness ==
    /\ Scanned /\ ~WasObserverCallback
    /\ Relevant(heard)
    /\ last.inserted = 0
    /\ \E b \in Buttons : buttons[b].enhanced /\ buttons[b].suffixes = 1

====
